---------------------------- MODULE Spec2Model ----------------------------
(***************************************************************************)
(* A model of the SPN cipher (spn.py, spn_components.py) and of the        *)
(* difference-distribution table and the trail search of                   *)
(* differential_crypto.py.                                                 *)
(*                                                                         *)
(* Python lists are sequences (Python index i is TLA+ index i+1), a dict   *)
(* is the sequence of its items <<key, value>> in insertion order, and a   *)
(* call returns a record [err, val]: err = "" and the value, or the name   *)
(* of the exception raised.                                                *)
(***************************************************************************)
EXTENDS Integers, Sequences, FiniteSets, TLC

VARIABLES
    obj,                \* the component under test: an SBOX, a SubstitutionLayer, a PermutationLayer, or None
    call,               \* the last method call on obj: [op, arg]
    ret,                \* what that call returned: [err, val]
    orig,               \* the call whose return value is the argument of `call` (None if there is none)
    layers,             \* SPN.layers
    num_rounds,         \* SPN.num_rounds
    key_round_function, \* SPN.key_round_function
    built,              \* the last call that built the cipher: [op, R, err, before, rounds_before]
    method,             \* the running or finished call of the cipher: "encrypt", "decrypt_" or ""
    pc,                 \* where that call stands: "idle", "loop", "return" or "raise"
    error,              \* the exception it raised ("" if none)
    arg,                \* its state argument
    state,              \* the local `state` of encrypt / decrypt_
    master_key,         \* the master_key argument
    round_num,          \* the local round_num
    pos,                \* the number of layers the running loop has gone through
    plain,              \* the argument of the encrypt whose result decrypt_ was given (<<>> if none)
    round_key,          \* the local round_key: what the key schedule returned last (<<>> before the first call)
    keys_used,          \* the round numbers the running call passed to the key schedule, in order
    sbox,               \* the module-level sbox of differential_crypto.py
    df,                 \* the rows of the difference-distribution table built so far
    a_prime,            \* the row the table construction builds next
    pmap,               \* the module-level perm_map of differential_crypto.py
    trace_pc,           \* where trace_differential_trail stands: "idle", "sbox", "perm", "final" or "return"
    input_diff,         \* its argument input_diff
    trail_rounds,       \* its argument num_rounds
    state_diff,         \* its local state_diff
    after_sbox,         \* its local after_sbox (<<>> before the first S-box step of the loop)
    trail_probability,  \* its local trail_probability: [num, exp] for num / 2^exp
    active_sboxes,      \* its local active_sboxes
    trails,             \* its local trails
    trail_round,        \* the passes of `for round_num in range(num_rounds-1)` done
    steps,              \* the steps the running call has done, in order: "sbox" or "perm"
    trace_result,       \* what the call returned (None before it returns)
    best                \* what find_best_differential_trail returned: [err, val] (None before the call)

vars == <<obj, call, ret, orig, layers, num_rounds, key_round_function, built,
          method, pc, error, arg, state, master_key, round_num, pos, plain, round_key,
          keys_used, sbox, df, a_prime, pmap, trace_pc, input_diff, trail_rounds,
          state_diff, after_sbox, trail_probability, active_sboxes, trails, trail_round,
          steps, trace_result, best>>

componentVars == <<obj, call, ret, orig>>
cipherVars == <<layers, num_rounds, key_round_function, built>>
runVars == <<method, pc, error, arg, state, master_key, round_num, pos, plain, round_key, keys_used>>
trailVars == <<pmap, trace_pc, input_diff, trail_rounds, state_diff, after_sbox,
               trail_probability, active_sboxes, trails, trail_round, steps, trace_result,
               best>>
ddtVars == <<sbox, df, a_prime, trailVars>>

---------------------------------------------------------------------------
(* Bounds of the model *)

\* tables are varied at the first MaxTweak+1 entries and XORed with 0..MaxTweak
MaxTweak == 2
\* permutation maps of 1..MaxPermLen entries are enumerated
MaxPermLen == 3
\* build_standard_spn is called with 1..MaxRounds rounds
MaxRounds == 3
\* lists of 1..MaxSboxes S-boxes are enumerated for a SubstitutionLayer
MaxSboxes == 2
\* layers added one at a time (add_layer, add_key_whitening_layer) before a build
MaxExtraLayers == 1
\* states, besides the test plaintext, the cipher is run on
NumStates == 2

---------------------------------------------------------------------------
(* Python values *)

None == [type |-> "None"]

Ok(v) == [err |-> "", val |-> v]

Raise(e) == [err |-> e, val |-> <<>>]

\* list[i] for a Python index i: negative indices count from the end
PyInRange(list, i) == -Len(list) <= i /\ i < Len(list)

PyIndex(list, i) == IF i >= 0 THEN i + 1 ELSE Len(list) + i + 1

\* list[a:b] for 0 <= a <= b: a slice is cut at the end of the list
PySlice(list, a, b) ==
    LET hi == IF b < Len(list) THEN b ELSE Len(list)
    IN  IF a >= hi THEN <<>> ELSE SubSeq(list, a + 1, hi)

RECURSIVE Pow2(_)
Pow2(n) == IF n = 0 THEN 1 ELSE 2 * Pow2(n - 1)

\* a ^ b on non-negative integers
RECURSIVE XorInt(_, _)
XorInt(a, b) ==
    IF a = 0 THEN b
    ELSE IF b = 0 THEN a
    ELSE ((a + b) % 2) + 2 * XorInt(a \div 2, b \div 2)

BitVectors(n) == [1..n -> {0, 1}]

---------------------------------------------------------------------------
(* class SBOX, spn_components.py *)

Bits == 4

DefaultTable == <<12, 5, 6, 11, 9, 0, 10, 13, 3, 14, 15, 8, 4, 7, 1, 2>>

SBOX_is_bijective_dup(size, table) ==
    \A k \in 1..Len(table) : 0 <= table[k] /\ table[k] < size

SBOX_is_bijective(size, table) ==
    /\ \A k \in 1..Len(table) : 0 <= table[k] /\ table[k] < size
    /\ Cardinality({table[k] : k \in 1..Len(table)}) = size

\* TRUE when _validate_table raises
SBOX_validate_table_raises(size, table) ==
    \/ Len(table) # size
    \/ ~SBOX_is_bijective(size, table)

\* the loop of _compute_inverse from index i on: inverse[val] = i
RECURSIVE SBOX_inverse_loop(_, _, _)
SBOX_inverse_loop(table, inverse, i) ==
    IF i >= Len(table) THEN inverse
    ELSE SBOX_inverse_loop(table, [inverse EXCEPT ![table[i + 1] + 1] = i], i + 1)

SBOX_compute_inverse_fwd(size, table) == table

SBOX_compute_inverse(size, table) ==
    SBOX_inverse_loop(table, [k \in 1..size |-> 0], 0)

\* SBOX(table, bits): the object, or the exception (SBOX() is SBOX_init(DefaultTable, Bits))
SBOX_init(table, bits) ==
    LET size == Pow2(bits)
    IN  IF SBOX_validate_table_raises(size, table)
        THEN Raise("ValueError")
        ELSE Ok([type |-> "SBOX", bits |-> bits, size |-> size, table |-> table,
                 inverse |-> SBOX_compute_inverse(size, table)])

\* sum([x[i] << i for i in range(bits)])
RECURSIVE SumShifted(_, _)
SumShifted(x, i) ==
    IF i >= Len(x) THEN 0 ELSE x[i + 1] * Pow2(i) + SumShifted(x, i + 1)

SBOX_convert_to_int(s, x) ==
    IF Len(x) # s.bits THEN Raise("ValueError") ELSE Ok(SumShifted(x, 0))

SBOX_convert_to_binary_msb(s, x) ==
    [k \in 1..s.bits |-> IF (x \div Pow2(s.bits - k)) % 2 = 1 THEN 1 ELSE 0]

SBOX_convert_to_binary(s, x) ==
    [k \in 1..s.bits |-> IF (x \div Pow2(k - 1)) % 2 = 1 THEN 1 ELSE 0]

SBOX_encrypt(s, x) ==
    LET x_int == SBOX_convert_to_int(s, x)
    IN  IF x_int.err # "" THEN Raise(x_int.err)
        ELSE Ok(SBOX_convert_to_binary(s, s.table[x_int.val + 1]))

SBOX_decrypt(s, x) ==
    LET x_int == SBOX_convert_to_int(s, x)
    IN  IF x_int.err # "" THEN Raise(x_int.err)
        ELSE Ok(SBOX_convert_to_binary(s, s.inverse[x_int.val + 1]))

---------------------------------------------------------------------------
(* class SubstitutionLayer, spn_components.py *)

\* the loop of encrypt (dir = "encrypt") and of decrypt (dir = "decrypt") from S-box i on
RECURSIVE SubstitutionLayer_loop(_, _, _, _, _)
SubstitutionLayer_loop(layer, dir, st, i, result) ==
    IF i >= Len(layer.sboxes) THEN Ok(result)
    ELSE LET start_idx == i * layer.bits
             chunk == PySlice(st, start_idx, start_idx + layer.bits)
             out == IF dir = "encrypt" THEN SBOX_encrypt(layer.sboxes[i + 1], chunk)
                    ELSE SBOX_decrypt(layer.sboxes[i + 1], chunk)
         IN  IF out.err # "" THEN Raise(out.err)
             ELSE SubstitutionLayer_loop(layer, dir, st, i + 1, result \o out.val)

SubstitutionLayer_init(sboxes, length) ==
    IF \E k \in 1..Len(sboxes) : sboxes[k].type # "SBOX" THEN Raise("ValueError")
    ELSE IF Len(sboxes) = 0 THEN Raise("IndexError")
    ELSE LET sbox_bits == sboxes[1].bits
         IN  IF \E k \in 1..Len(sboxes) : sboxes[k].bits # sbox_bits THEN Raise("ValueError")
             ELSE IF length # sbox_bits * Len(sboxes) THEN Raise("ValueError")
             ELSE Ok([type |-> "SubstitutionLayer", length |-> length,
                      sboxes |-> sboxes, bits |-> sbox_bits])

SubstitutionLayer_encrypt_nocheck(layer, st) ==
    SubstitutionLayer_loop(layer, "encrypt", st, 0, <<>>)

SubstitutionLayer_encrypt(layer, st) ==
    IF Len(st) # layer.length THEN Raise("ValueError")
    ELSE SubstitutionLayer_loop(layer, "encrypt", st, 0, <<>>)

SubstitutionLayer_decrypt(layer, st) ==
    IF Len(st) # layer.length THEN Raise("ValueError")
    ELSE SubstitutionLayer_loop(layer, "decrypt", st, 0, <<>>)

---------------------------------------------------------------------------
(* class PermutationLayer, spn_components.py *)

\* TRUE when _validate_permutation raises
PermutationLayer_validate_raises(perm_map) ==
    \/ Len(perm_map) = 0
    \/ ~(\A k \in 1..Len(perm_map) : 0 <= perm_map[k][2] /\ perm_map[k][2] < Len(perm_map))
    \/ Cardinality({perm_map[k][2] : k \in 1..Len(perm_map)}) # Len(perm_map)

PermutationLayer_init(perm_map) ==
    IF PermutationLayer_validate_raises(perm_map) THEN Raise("ValueError")
    ELSE Ok([type |-> "PermutationLayer", permutation |-> perm_map,
             length |-> Len(perm_map)])

\* the loop `for a, b in items: result[a] = st[b]` from item n on, where a and b
\* are the fields to, from of the item
RECURSIVE PermutationLayer_loop(_, _, _, _, _, _)
PermutationLayer_loop(items, to, from, st, n, result) ==
    IF n > Len(items) THEN Ok(result)
    ELSE LET a == items[n][to]
             b == items[n][from]
         IN  IF ~PyInRange(st, b) \/ ~PyInRange(result, a) THEN Raise("IndexError")
             ELSE PermutationLayer_loop(items, to, from, st, n + 1,
                      [result EXCEPT ![PyIndex(result, a)] = st[PyIndex(st, b)]])

\* for src, dst in items: result[dst] = state[src]
PermutationLayer_encrypt(layer, st) ==
    IF Len(st) # layer.length THEN Raise("ValueError")
    ELSE PermutationLayer_loop(layer.permutation, 2, 1, st, 1, [k \in 1..layer.length |-> 0])

\* for dst, src in items: result[dst] = state[src]
PermutationLayer_decrypt(layer, st) ==
    IF Len(st) # layer.length THEN Raise("ValueError")
    ELSE PermutationLayer_loop(layer.permutation, 1, 2, st, 1, [k \in 1..layer.length |-> 0])

---------------------------------------------------------------------------
(* key_whitening, spn_components.py, and generate_round_key, spn.py *)

key_whitening_or(st, key) ==
    IF Len(st) # Len(key) THEN Raise("ValueError")
    ELSE Ok([k \in 1..Len(st) |-> IF st[k] = 1 THEN 1 ELSE key[k]])

key_whitening(st, key) ==
    IF Len(st) # Len(key) THEN Raise("ValueError")
    ELSE Ok([k \in 1..Len(st) |-> XorInt(st[k], key[k])])

KeySize == 16

generate_round_key(key, r, key_size) ==
    LET start_pos == (4 * r) - 4
        end_pos == start_pos + key_size
    IN  PySlice(key, start_pos, end_pos)

---------------------------------------------------------------------------
(* The values the operations are called with *)

\* the table of differential_crypto.py (sbox3 of spn_unit.py)
DiffTable == <<7, 13, 14, 3, 0, 6, 9, 10, 1, 2, 8, 5, 11, 12, 4, 15>>

\* sbox2 and sbox4 of spn_unit.py
Sbox2Table == <<3, 8, 15, 1, 10, 6, 5, 11, 14, 13, 4, 2, 7, 0, 9, 12>>

Sbox4Table == <<2, 12, 4, 1, 7, 10, 11, 6, 8, 5, 3, 15, 13, 0, 14, 9>>

IdentityTable == [k \in 1..Pow2(Bits) |-> k - 1]

BaseTables == {DefaultTable, DiffTable, Sbox2Table, Sbox4Table, IdentityTable}

\* bijective tables: every base table XORed with a constant
XorTables == {[k \in 1..Len(t) |-> XorInt(t[k], c)] : t \in BaseTables, c \in 0..MaxTweak}

\* a base table with one entry overwritten: a repeated value, a value out of range,
\* or the table itself
TweakedTables ==
    {[t EXCEPT ![j] = v] : t \in BaseTables, j \in 1..(MaxTweak + 1),
                           v \in {-1, 0, 7, Pow2(Bits)}}

\* tables of the wrong length
ResizedTables ==
    {SubSeq(t, 1, Len(t) - 1) : t \in BaseTables}
        \cup {Append(t, v) : t \in BaseTables, v \in {0, Pow2(Bits)}}
        \cup {<<0, 1, 2, 3, 4, 5>>}

\* 2-bit tables
SmallTables ==
    {<<0, 1, 2, 3>>, <<2, 0, 3, 1>>, <<3, 2, 1, 0>>, <<1, 3, 0, 2>>,
     <<1, 1, 2, 3>>, <<0, 1, 2, 4>>, <<0, 1, 2>>, <<0, 1, 2, 3, 3>>}

\* the arguments <<table, bits>> SBOX is constructed with
SboxArgs ==
    {<<t, Bits>> : t \in XorTables \cup TweakedTables \cup ResizedTables}
        \cup {<<t, 2>> : t \in SmallTables}
        \cup {<<DefaultTable, 2>>, <<(<<2, 0, 3, 1>>), Bits>>}

\* bit vectors of length n: all of them for n <= Bits, NumPatterns of them otherwise
NumPatterns == 6

Pattern(v, n) == [k \in 1..n |-> ((v * 37 + (k - 1) \div 8) \div Pow2((k - 1) % 8)) % 2]

\* plaintext and master_key of test_spn, spn.py
TestPlaintext == <<1, 0, 1, 0, 1, 1, 0, 0, 1, 1, 0, 0, 1, 0, 1, 0>>

TestMasterKey == <<0,1,1,0, 1,0,1,0, 1,1,0,0, 0,1,0,1, 1,0,0,1, 0,1,1,0, 1,0,1,0, 1,1,0,0>>

\* state of test_substitution_layer_encrypt_decrypt, spn_unit.py
SubTestState == <<0, 0, 0, 1, 0, 1, 0, 0, 1, 0, 0, 0, 1, 1, 1, 1>>

Vectors(n) ==
    IF n <= Bits THEN BitVectors(n)
    ELSE {Pattern(v, n) : v \in 0..(NumPatterns - 1)}
            \cup {v \in {TestPlaintext, SubTestState} : Len(v) = n}

\* the arguments of encrypt and decrypt for a component of block length n:
\* vectors of length n, and one shorter and one longer vector
Inputs(n) ==
    Vectors(n) \cup {[k \in 1..(n - 1) |-> 1], [k \in 1..(n + 1) |-> 0]}

---------------------------------------------------------------------------
(* Initial values of the variables an operation does not use *)

NoCall == [op |-> "", arg |-> <<>>]

NoRet == [err |-> "none", val |-> <<>>]

NoBuild == [op |-> "", R |-> 0, err |-> "", before |-> <<>>, rounds_before |-> 0]

ComponentIdle == obj = None /\ call = NoCall /\ ret = NoRet /\ orig = NoCall

CipherIdle ==
    /\ layers = <<>>
    /\ num_rounds = 0
    /\ key_round_function = "None"
    /\ built = NoBuild

RunIdle ==
    /\ method = ""
    /\ pc = "idle"
    /\ error = ""
    /\ arg = <<>>
    /\ state = <<>>
    /\ master_key = <<>>
    /\ round_num = 0
    /\ pos = 0
    /\ plain = <<>>
    /\ round_key = <<>>
    /\ keys_used = <<>>

\* no trail is being traced: perm_map is defined, 1.0 is 1 / 2^0
TrailIdle ==
    /\ pmap = << <<0, 0>>, <<1, 4>>, <<2, 8>>, <<3, 12>>, <<4, 1>>, <<5, 5>>, <<6, 9>>,
                 <<7, 13>>, <<8, 2>>, <<9, 6>>, <<10, 10>>, <<11, 14>>, <<12, 3>>,
                 <<13, 7>>, <<14, 11>>, <<15, 15>> >>
    /\ trace_pc = "idle"
    /\ input_diff = 0
    /\ trail_rounds = 0
    /\ state_diff = <<>>
    /\ after_sbox = <<>>
    /\ trail_probability = [num |-> 1, exp |-> 0]
    /\ active_sboxes = <<>>
    /\ trails = <<>>
    /\ trail_round = 0
    /\ steps = <<>>
    /\ trace_result = None
    /\ best = None

DdtIdle == sbox = None /\ df = <<>> /\ a_prime = 0 /\ TrailIdle

\* the call that produced the argument x, if the last call returned x
Origin(x) ==
    IF call.op \in {"encrypt", "decrypt"} /\ ret.err = "" /\ ret.val = x
    THEN call ELSE NoCall

\* the arguments of the next call: fresh ones, or what the last call returned for a
\* fresh one
Args(n) ==
    Inputs(n) \cup (IF call.op \in {"encrypt", "decrypt"} /\ ret.err = "" /\ orig = NoCall
                    THEN {ret.val} ELSE {})

---------------------------------------------------------------------------
(* An SBOX is constructed, then encrypt and decrypt are called on it *)

NewSBOX(table, bits) ==
    /\ obj = None /\ call = NoCall
    /\ LET r == SBOX_init(table, bits)
       IN  /\ obj' = IF r.err = "" THEN r.val ELSE None
           /\ ret' = [err |-> r.err, val |-> <<>>]
    /\ call' = [op |-> "SBOX", arg |-> table, bits |-> bits]
    /\ orig' = NoCall
    /\ UNCHANGED <<cipherVars, runVars, ddtVars>>

SBOXEncrypt(x) ==
    /\ obj.type = "SBOX"
    /\ call' = [op |-> "encrypt", arg |-> x]
    /\ ret' = SBOX_encrypt(obj, x)
    /\ orig' = Origin(x)
    /\ UNCHANGED <<obj, cipherVars, runVars, ddtVars>>

SBOXDecrypt(x) ==
    /\ obj.type = "SBOX"
    /\ call' = [op |-> "decrypt", arg |-> x]
    /\ ret' = SBOX_decrypt(obj, x)
    /\ orig' = Origin(x)
    /\ UNCHANGED <<obj, cipherVars, runVars, ddtVars>>

InitSBOX == ComponentIdle /\ CipherIdle /\ RunIdle /\ DdtIdle

NextSBOX ==
    \/ \E a \in SboxArgs : NewSBOX(a[1], a[2])
    \/ obj.type = "SBOX" /\ \E x \in Args(obj.bits) : SBOXEncrypt(x)
    \/ obj.type = "SBOX" /\ \E x \in Args(obj.bits) : SBOXDecrypt(x)

SpecSBOX == InitSBOX /\ [][NextSBOX]_vars

\* the integer whose bit i (LSB first) is x[i+1]
ValueLsbFirst(x) ==
    CHOOSE v \in 0..(Pow2(Len(x)) - 1) : \A i \in 0..(Len(x) - 1) : (v \div Pow2(i)) % 2 = x[i + 1]

\* C2: for a constructed S-box, inverse[table[v]] = v for every v; decrypt of what
\* encrypt returned gives back the argument of encrypt, and encrypt of what decrypt
\* returned gives back the argument of decrypt; encrypt and decrypt of a k-bit
\* vector return the k-bit vector whose LSB-first value is the table (inverse
\* table) entry at the LSB-first value of the argument.
C2_SboxRoundTrip ==
    obj.type = "SBOX" =>
        /\ \A v \in 0..(obj.size - 1) : obj.inverse[obj.table[v + 1] + 1] = v
        /\ (call.op = "decrypt" /\ orig.op = "encrypt") => ret = Ok(orig.arg)
        /\ (call.op = "encrypt" /\ orig.op = "decrypt") => ret = Ok(orig.arg)
        /\ (call.op = "encrypt" /\ Len(call.arg) = obj.bits) =>
              /\ ret.err = "" /\ Len(ret.val) = obj.bits
              /\ ValueLsbFirst(ret.val) = obj.table[ValueLsbFirst(call.arg) + 1]
        /\ (call.op = "decrypt" /\ Len(call.arg) = obj.bits) =>
              /\ ret.err = "" /\ Len(ret.val) = obj.bits
              /\ ValueLsbFirst(ret.val) = obj.inverse[ValueLsbFirst(call.arg) + 1]

\* the default S-box decrypts what it returned for 0101 (value 10, LSB first) to 0101
C2_Witness ==
    /\ obj.type = "SBOX" /\ obj.table = DefaultTable
    /\ call.op = "decrypt" /\ orig.op = "encrypt"
    /\ orig.arg = <<0, 1, 0, 1>>
    /\ call.arg = <<1, 1, 1, 1>>
    /\ ret = Ok(<<0, 1, 0, 1>>)

\* C3: SBOX(table, bits) raises a ValueError exactly when the table's length is not
\* 2^bits, or a value lies outside [0, 2^bits), or a value is repeated; when it
\* raises there is no S-box, and otherwise the S-box holds the table.
C3_SboxValidation ==
    call.op = "SBOX" =>
        LET t == call.arg
            size == Pow2(call.bits)
            bad == \/ Len(t) # size
                   \/ \E k \in 1..Len(t) : t[k] < 0 \/ t[k] >= size
                   \/ \E j, k \in 1..Len(t) : j # k /\ t[j] = t[k]
        IN  /\ bad <=> ret.err = "ValueError"
            /\ ret.err # "" => obj = None
            /\ ~bad => ret.err = "" /\ obj.type = "SBOX" /\ obj.table = t /\ obj.bits = call.bits

\* a table of the right length, all values in range, one value repeated, is refused
C3_Witness ==
    /\ call.op = "SBOX" /\ call.bits = Bits
    /\ Len(call.arg) = Pow2(Bits)
    /\ \A k \in 1..Len(call.arg) : 0 <= call.arg[k] /\ call.arg[k] < Pow2(Bits)
    /\ \E j, k \in 1..Len(call.arg) : j # k /\ call.arg[j] = call.arg[k]
    /\ ret.err = "ValueError" /\ obj = None

---------------------------------------------------------------------------
(* A PermutationLayer is constructed, then encrypt and decrypt are called on it *)

\* perm_map of differential_crypto.py
DiffPermMap ==
    << <<0, 0>>, <<1, 4>>, <<2, 8>>, <<3, 12>>, <<4, 1>>, <<5, 5>>, <<6, 9>>, <<7, 13>>,
       <<8, 2>>, <<9, 6>>, <<10, 10>>, <<11, 14>>, <<12, 3>>, <<13, 7>>, <<14, 11>>, <<15, 15>> >>

\* the maps of test_permutation_encrypt_decrypt and test_complex_permutation
RotateMap == [k \in 1..8 |-> <<k - 1, (k + 1) % 8>>]

ComplexMap ==
    << <<0, 7>>, <<1, 3>>, <<2, 5>>, <<3, 1>>, <<4, 6>>, <<5, 2>>, <<6, 4>>, <<7, 0>> >>

IdentityMap(n) == [k \in 1..n |-> <<k - 1, k - 1>>]

\* every dict of n items with keys in -1..n (in ascending order) and values in 0..n
SmallMaps(n) ==
    {[k \in 1..n |-> <<ks[k], vs[k]>>] :
        ks \in {f \in [1..n -> -1..n] : \A j, k \in 1..n : j < k => f[j] < f[k]},
        vs \in [1..n -> 0..n]}

PermMaps ==
    UNION {SmallMaps(n) : n \in 1..MaxPermLen}
        \cup {<<>>, DiffPermMap, RotateMap, ComplexMap, IdentityMap(Pow2(Bits)),
              << <<1, 0>>, <<0, 1>> >>, << <<-2, 0>>, <<0, 1>> >>,
              << <<0, 10>>, <<1, 1>>, <<2, 2>>, <<3, 3>> >>,
              << <<0, 1>>, <<1, 1>>, <<2, 2>>, <<3, 3>> >>}

NewPermutationLayer(perm_map) ==
    /\ obj = None /\ call = NoCall
    /\ LET r == PermutationLayer_init(perm_map)
       IN  /\ obj' = IF r.err = "" THEN r.val ELSE None
           /\ ret' = [err |-> r.err, val |-> <<>>]
    /\ call' = [op |-> "PermutationLayer", arg |-> perm_map]
    /\ orig' = NoCall
    /\ UNCHANGED <<cipherVars, runVars, ddtVars>>

PermEncrypt(x) ==
    /\ obj.type = "PermutationLayer"
    /\ call' = [op |-> "encrypt", arg |-> x]
    /\ ret' = PermutationLayer_encrypt(obj, x)
    /\ orig' = Origin(x)
    /\ UNCHANGED <<obj, cipherVars, runVars, ddtVars>>

PermDecrypt(x) ==
    /\ obj.type = "PermutationLayer"
    /\ call' = [op |-> "decrypt", arg |-> x]
    /\ ret' = PermutationLayer_decrypt(obj, x)
    /\ orig' = Origin(x)
    /\ UNCHANGED <<obj, cipherVars, runVars, ddtVars>>

InitPerm == ComponentIdle /\ CipherIdle /\ RunIdle /\ DdtIdle

NextPerm ==
    \/ \E m \in PermMaps : NewPermutationLayer(m)
    \/ obj.type = "PermutationLayer" /\ \E x \in Args(obj.length) : PermEncrypt(x)
    \/ obj.type = "PermutationLayer" /\ \E x \in Args(obj.length) : PermDecrypt(x)

SpecPerm == InitPerm /\ [][NextPerm]_vars

\* a dict that maps {0..L-1} one-to-one onto {0..L-1}, L the number of its items
IsBijectionOverL(m) ==
    /\ {m[k][1] : k \in 1..Len(m)} = 0..(Len(m) - 1)
    /\ {m[k][2] : k \in 1..Len(m)} = 0..(Len(m) - 1)

\* C4: for every map the construction accepts and every state of the map's length,
\* encrypt returns a state and decrypt of that state returns the argument of encrypt.
C4_PermRoundTrip ==
    obj.type = "PermutationLayer" =>
        /\ (call.op = "encrypt" /\ Len(call.arg) = obj.length) => ret.err = ""
        /\ (call.op = "decrypt" /\ orig.op = "encrypt") => ret = Ok(orig.arg)

\* C5: the construction raises for every map that is not a bijection over [0, L), and
\* so encrypt and decrypt of an accepted map raise nothing on a state of length L.
C5_PermValidation ==
    /\ (call.op = "PermutationLayer" /\ ~IsBijectionOverL(call.arg)) => ret.err = "ValueError"
    /\ (obj.type = "PermutationLayer" /\ call.op \in {"encrypt", "decrypt"}
            /\ Len(call.arg) = obj.length) => ret.err = ""

---------------------------------------------------------------------------
(* A SubstitutionLayer is constructed, then encrypt and decrypt are called on it *)

SboxObject(table, bits) == SBOX_init(table, bits).val

SboxObjects ==
    {SboxObject(t, Bits) : t \in BaseTables}
        \cup {SboxObject(t, 2) : t \in {<<0, 1, 2, 3>>, <<2, 0, 3, 1>>, <<3, 2, 1, 0>>, <<1, 3, 0, 2>>}}

\* the four S-boxes of TestSubstitutionLayer.setUp
UnitTestSboxes ==
    <<SboxObject(DefaultTable, Bits), SboxObject(Sbox2Table, Bits),
      SboxObject(DiffTable, Bits), SboxObject(Sbox4Table, Bits)>>

\* the arguments <<sboxes, length>> SubstitutionLayer is constructed with
SubArgs ==
    {<<l, n>> : l \in UNION {[1..m -> SboxObjects] : m \in 1..MaxSboxes},
                n \in {2 * Bits, Bits, 2}}
        \cup {<<l, l[1].bits * Len(l)>> : l \in UNION {[1..m -> SboxObjects] : m \in 1..MaxSboxes}}
        \cup {<<UnitTestSboxes, 16>>, <<SubSeq(UnitTestSboxes, 1, 3), 16>>,
              <<SubSeq(UnitTestSboxes, 1, 3), 12>>, <<(<<>>), 16>>, <<(<<None>>), Bits>>,
              <<[k \in 1..4 |-> SboxObject(DefaultTable, Bits)], 16>>}

NewSubstitutionLayer(sboxes, length) ==
    /\ obj = None /\ call = NoCall
    /\ LET r == SubstitutionLayer_init(sboxes, length)
       IN  /\ obj' = IF r.err = "" THEN r.val ELSE None
           /\ ret' = [err |-> r.err, val |-> <<>>]
    /\ call' = [op |-> "SubstitutionLayer", arg |-> sboxes, length |-> length]
    /\ orig' = NoCall
    /\ UNCHANGED <<cipherVars, runVars, ddtVars>>

SubEncrypt(x) ==
    /\ obj.type = "SubstitutionLayer"
    /\ call' = [op |-> "encrypt", arg |-> x]
    /\ ret' = SubstitutionLayer_encrypt(obj, x)
    /\ orig' = Origin(x)
    /\ UNCHANGED <<obj, cipherVars, runVars, ddtVars>>

SubDecrypt(x) ==
    /\ obj.type = "SubstitutionLayer"
    /\ call' = [op |-> "decrypt", arg |-> x]
    /\ ret' = SubstitutionLayer_decrypt(obj, x)
    /\ orig' = Origin(x)
    /\ UNCHANGED <<obj, cipherVars, runVars, ddtVars>>

InitSub == ComponentIdle /\ CipherIdle /\ RunIdle /\ DdtIdle

NextSub ==
    \/ \E a \in SubArgs : NewSubstitutionLayer(a[1], a[2])
    \/ obj.type = "SubstitutionLayer" /\ \E x \in Args(obj.length) : SubEncrypt(x)
    \/ obj.type = "SubstitutionLayer" /\ \E x \in Args(obj.length) : SubDecrypt(x)

SpecSub == InitSub /\ [][NextSub]_vars

\* C6: on a state of length L = n*k, encrypt (decrypt) returns L bits whose i-th k-bit
\* chunk is S_i.encrypt (S_i.decrypt) of the i-th k-bit chunk of the state; decrypt of
\* what encrypt returned gives back the argument of encrypt; a state of another
\* length is refused with a ValueError.
C6_SubstitutionLayer ==
    (obj.type = "SubstitutionLayer" /\ call.op \in {"encrypt", "decrypt"}) =>
        LET k == obj.bits
            n == Len(obj.sboxes)
            Chunk(v, i) == SubSeq(v, i * k + 1, (i + 1) * k)
        IN  /\ obj.length = n * k
            /\ Len(call.arg) # obj.length => ret.err = "ValueError"
            /\ Len(call.arg) = obj.length =>
                  /\ ret.err = "" /\ Len(ret.val) = obj.length
                  /\ \A i \in 0..(n - 1) :
                        Chunk(ret.val, i) =
                            IF call.op = "encrypt"
                            THEN SBOX_encrypt(obj.sboxes[i + 1], Chunk(call.arg, i)).val
                            ELSE SBOX_decrypt(obj.sboxes[i + 1], Chunk(call.arg, i)).val
            /\ (call.op = "decrypt" /\ orig.op = "encrypt") => ret = Ok(orig.arg)

\* the layer of the four unit-test S-boxes decrypts what it returned for the
\* unit-test state (chunks 8, 2, 1, 15 go to 3, 15, 13, 9) to that state
C6_Witness ==
    /\ obj.type = "SubstitutionLayer" /\ obj.sboxes = UnitTestSboxes
    /\ call.op = "decrypt" /\ orig.op = "encrypt"
    /\ orig.arg = SubTestState
    /\ call.arg = <<1, 1, 0, 0, 1, 1, 1, 1, 1, 0, 1, 1, 1, 0, 0, 1>>
    /\ ret = Ok(SubTestState)

---------------------------------------------------------------------------
(* class SPN, spn.py: building the cipher *)

Length == 16

KeyWhitening == [type |-> "key_whitening"]

\* add_layer: the layers after the call and the exception raised
SPN_add_layer(ls, layer) ==
    IF layer.type \notin {"SubstitutionLayer", "PermutationLayer"}
    THEN [err |-> "ValueError", layers |-> ls]
    ELSE IF layer.length # Length
    THEN [err |-> "ValueError", layers |-> ls]
    ELSE [err |-> "", layers |-> Append(ls, layer)]

\* the first loop of build_standard_spn with n rounds to go, on a cipher with layers
\* ls and round counter rounds
RECURSIVE SPN_build_loop(_, _, _, _, _)
SPN_build_loop(n, ls, rounds, sub_layer, perm_layer) ==
    IF n <= 0 THEN [err |-> "", layers |-> ls, num_rounds |-> rounds]
    ELSE LET whitened == Append(ls, KeyWhitening)
             a == SPN_add_layer(whitened, sub_layer)
             b == SPN_add_layer(a.layers, perm_layer)
         IN  IF a.err # "" THEN [err |-> a.err, layers |-> a.layers, num_rounds |-> rounds + 1]
             ELSE IF b.err # "" THEN [err |-> b.err, layers |-> b.layers, num_rounds |-> rounds + 1]
             ELSE SPN_build_loop(n - 1, b.layers, rounds + 1, sub_layer, perm_layer)

SPN_build_rounds_all(R) == R

\* the number of times the loop `for _ in range(num_rounds-1)` runs
SPN_build_rounds(R) == R - 1

\* build_standard_spn: the cipher after the call and the exception raised
SPN_build_standard_spn(ls, rounds, krf, sb, permutation, key_schedule, R) ==
    LET sub == SubstitutionLayer_init([k \in 1..(Length \div sb.bits) |-> sb], Length)
        perm == PermutationLayer_init(permutation)
        same == [layers |-> ls, num_rounds |-> rounds, key_round_function |-> krf]
    IN  IF sub.err # "" THEN [err |-> sub.err] @@ same
        ELSE IF perm.err # "" THEN [err |-> perm.err] @@ same
        ELSE LET looped == SPN_build_loop(SPN_build_rounds(R), ls, rounds, sub.val, perm.val)
                 last == SPN_add_layer(Append(looped.layers, KeyWhitening), sub.val)
             IN  IF looped.err # ""
                 THEN looped @@ [key_round_function |-> key_schedule]
                 ELSE IF last.err # ""
                 THEN [err |-> last.err, layers |-> last.layers,
                       num_rounds |-> looped.num_rounds + 1,
                       key_round_function |-> key_schedule]
                 ELSE [err |-> "", layers |-> Append(last.layers, KeyWhitening),
                       num_rounds |-> looped.num_rounds + 2,
                       key_round_function |-> key_schedule]

\* the S-boxes and the permutation maps a cipher is built from
CipherSboxes == {SboxObject(DiffTable, Bits), SboxObject(DefaultTable, Bits),
                 SboxObject(<<2, 0, 3, 1>>, 2)}

CipherPermMaps == {DiffPermMap, IdentityMap(Length), RotateMap,
                   [k \in 1..Length |-> <<k - 1, (k + 4) % Length>>],
                   [k \in 1..Length |-> <<k - 1, 0>>]}

\* the layers add_layer is called with
LayerArgs ==
    {SubstitutionLayer_init(UnitTestSboxes, Length).val,
     PermutationLayer_init(DiffPermMap).val,
     PermutationLayer_init(ComplexMap).val,
     None}

add_layer(layer) ==
    /\ pc = "idle"
    /\ Len(layers) < MaxExtraLayers
    /\ LET r == SPN_add_layer(layers, layer)
       IN  /\ layers' = r.layers
           /\ built' = [op |-> "add_layer", R |-> 0, err |-> r.err,
                        before |-> layers, rounds_before |-> num_rounds]
    /\ UNCHANGED <<num_rounds, key_round_function, componentVars, runVars, ddtVars>>

add_key_whitening_layer ==
    /\ pc = "idle"
    /\ Len(layers) < MaxExtraLayers
    /\ num_rounds' = num_rounds + 1
    /\ layers' = Append(layers, KeyWhitening)
    /\ built' = [op |-> "add_key_whitening_layer", R |-> 0, err |-> "",
                 before |-> layers, rounds_before |-> num_rounds]
    /\ UNCHANGED <<key_round_function, componentVars, runVars, ddtVars>>

add_key_round_function(func) ==
    /\ pc = "idle"
    /\ key_round_function = "None"
    /\ key_round_function' = func
    /\ UNCHANGED <<layers, num_rounds, built, componentVars, runVars, ddtVars>>

build_standard_spn(sb, permutation, key_schedule, R) ==
    /\ pc = "idle"
    /\ Len(layers) <= MaxExtraLayers
    /\ LET r == SPN_build_standard_spn(layers, num_rounds, key_round_function,
                                       sb, permutation, key_schedule, R)
       IN  /\ layers' = r.layers
           /\ num_rounds' = r.num_rounds
           /\ key_round_function' = r.key_round_function
           /\ built' = [op |-> "build_standard_spn", R |-> R, err |-> r.err,
                        before |-> layers, rounds_before |-> num_rounds]
    /\ UNCHANGED <<componentVars, runVars, ddtVars>>

---------------------------------------------------------------------------
(* class SPN, spn.py: encrypt and decrypt_ *)

SPN_check_master_key_raises_short(key) == Len(key) < Length - 1

\* TRUE when _check_master_key raises
SPN_check_master_key_raises(key) == Len(key) < Length

\* self.key_round_function(master_key, round_num): key_size takes its default
SPN_key_round_function(krf, key, r) ==
    IF krf = "None" THEN Raise("TypeError")
    ELSE Ok(generate_round_key(key, r, KeySize))

\* one pass of the loop body of encrypt (dir = "encrypt") or decrypt_ (dir =
\* "decrypt_") for `layer`: the new state, the round key drawn, the exception raised
SPN_apply_layer(dir, layer, st, key, r, krf) ==
    IF layer.type = "SubstitutionLayer"
    THEN (IF dir = "encrypt" THEN SubstitutionLayer_encrypt(layer, st)
          ELSE SubstitutionLayer_decrypt(layer, st)) @@ [whitening |-> FALSE, key |-> <<>>]
    ELSE IF layer.type = "PermutationLayer"
    THEN (IF dir = "encrypt" THEN PermutationLayer_encrypt(layer, st)
          ELSE PermutationLayer_decrypt(layer, st)) @@ [whitening |-> FALSE, key |-> <<>>]
    ELSE LET rk == SPN_key_round_function(krf, key, r)
         IN  IF rk.err # "" THEN Raise(rk.err) @@ [whitening |-> TRUE, key |-> <<>>]
             ELSE key_whitening(st, rk.val) @@ [whitening |-> TRUE, key |-> rk.val]

\* the states and the master keys the cipher is run on
States ==
    {TestPlaintext} \cup {Pattern(v, Length) : v \in 1..NumStates}
        \cup {[k \in 1..(Length - 1) |-> 1]}

MasterKeys ==
    {SubSeq(TestMasterKey, 1, n) : n \in {Length - 1, Length, Length + 4, 2 * Length}}
        \cup {Pattern(5, 2 * Length)}

\* encrypt(state, master_key) up to the loop
EncryptStart(st, key) ==
    /\ pc \in {"idle", "return", "raise"}
    /\ method' = "encrypt"
    /\ arg' = st
    /\ state' = st
    /\ master_key' = key
    /\ plain' = <<>>
    /\ pos' = 0
    /\ round_key' = <<>>
    /\ keys_used' = <<>>
    /\ IF SPN_check_master_key_raises(key)
       THEN pc' = "raise" /\ error' = "ValueError" /\ round_num' = 0
       ELSE pc' = "loop" /\ error' = "" /\ round_num' = 1
    /\ UNCHANGED <<componentVars, cipherVars, ddtVars>>

\* decrypt_(state, master_key) up to the loop; plain remembers the argument of the
\* encrypt call whose result, with the same key, is decrypted
DecryptStart(st, key) ==
    /\ pc \in {"idle", "return", "raise"}
    /\ method' = "decrypt_"
    /\ arg' = st
    /\ state' = st
    /\ master_key' = key
    /\ plain' = IF method = "encrypt" /\ pc = "return" /\ st = state /\ key = master_key
                THEN arg ELSE <<>>
    /\ pos' = 0
    /\ round_key' = <<>>
    /\ keys_used' = <<>>
    /\ IF SPN_check_master_key_raises(key)
       THEN pc' = "raise" /\ error' = "ValueError" /\ round_num' = 0
       ELSE pc' = "loop" /\ error' = "" /\ round_num' = num_rounds
    /\ UNCHANGED <<componentVars, cipherVars, ddtVars>>

\* one pass of `for layer in self.layers` of encrypt or decrypt_
LayerStep ==
    /\ pc = "loop"
    /\ pos < Len(layers)
    /\ LET r == SPN_apply_layer(method, layers[pos + 1], state, master_key, round_num,
                                key_round_function)
       IN  /\ pos' = pos + 1
           /\ IF r.whitening
              THEN /\ keys_used' = Append(keys_used, round_num)
                   /\ round_key' = r.key
              ELSE UNCHANGED <<keys_used, round_key>>
           /\ IF r.err # ""
              THEN pc' = "raise" /\ error' = r.err /\ UNCHANGED <<state, round_num>>
              ELSE /\ state' = r.val
                   /\ round_num' = IF ~r.whitening THEN round_num
                                   ELSE IF method = "encrypt" THEN round_num + 1
                                   ELSE round_num - 1
                   /\ UNCHANGED <<pc, error>>
    /\ UNCHANGED <<method, arg, master_key, plain, componentVars, cipherVars, ddtVars>>

\* return state
Return ==
    /\ pc = "loop"
    /\ pos = Len(layers)
    /\ pc' = "return"
    /\ UNCHANGED <<method, error, arg, state, master_key, round_num, pos, plain, round_key,
                   keys_used, componentVars, cipherVars, ddtVars>>

Init == ComponentIdle /\ CipherIdle /\ RunIdle /\ DdtIdle

Next ==
    \/ \E layer \in LayerArgs : add_layer(layer)
    \/ add_key_whitening_layer
    \/ add_key_round_function("generate_round_key")
    \/ \E sb \in CipherSboxes, m \in CipherPermMaps, R \in 1..MaxRounds :
          build_standard_spn(sb, m, "generate_round_key", R)
    \/ \E st \in States, key \in MasterKeys : EncryptStart(st, key)
    \/ \E st \in States \cup (IF method = "encrypt" /\ pc = "return" THEN {state} ELSE {}),
          key \in MasterKeys : DecryptStart(st, key)
    \/ LayerStep
    \/ Return

Spec == Init /\ [][Next]_vars

\* the cipher is what build_standard_spn made of a fresh SPN
StandardBuilt ==
    /\ built.op = "build_standard_spn" /\ built.err = ""
    /\ built.before = <<>> /\ built.rounds_before = 0

\* C1: on a cipher built by the standard construction, decrypt_ of what encrypt
\* returned, with the same master key, returns the state encrypt was given.
C1_CipherRoundTrip ==
    (StandardBuilt /\ method = "decrypt_" /\ plain # <<>> /\ pc \in {"return", "raise"}) =>
        pc = "return" /\ state = plain

\* C7: on a cipher built by the standard construction and run with a master key it
\* accepts, every round key the schedule returns has key_size bits, the bits
\* master_key[4(r-1)] .. master_key[4(r-1)+key_size-1] for the round number r.
C7_RoundKey ==
    (StandardBuilt /\ method # "" /\ keys_used # <<>>) =>
        LET r == keys_used[Len(keys_used)]
        IN  /\ r \in 1..(built.R + 1)
            /\ Len(round_key) = KeySize
            /\ \A j \in 1..KeySize : round_key[j] = master_key[4 * (r - 1) + j]

\* C8: after build_standard_spn with R rounds on a fresh cipher the layers are R-1
\* times (whitening, substitution, permutation), then (whitening, substitution,
\* whitening): 3R layers, and num_rounds is the number of whitening layers, R+1.
C8_StandardLayers ==
    StandardBuilt =>
        LET R == built.R
            Expected(i) ==
                IF i = 3 * R THEN "key_whitening"
                ELSE IF i % 3 = 1 THEN "key_whitening"
                ELSE IF i % 3 = 2 THEN "SubstitutionLayer"
                ELSE "PermutationLayer"
        IN  /\ Len(layers) = 3 * R
            /\ \A i \in 1..Len(layers) : layers[i].type = Expected(i)
            /\ num_rounds = Cardinality({i \in 1..Len(layers) : layers[i].type = "key_whitening"})
            /\ num_rounds = R + 1

\* a cipher of three rounds has been built: nine layers, four whitening steps
C8_Witness ==
    /\ StandardBuilt /\ built.R = 3
    /\ Len(layers) = 9 /\ num_rounds = 4
    /\ layers[6].type = "PermutationLayer" /\ layers[9].type = "key_whitening"

\* C9: encrypt and decrypt_ with a master key shorter than the block length raise a
\* ValueError before any layer is applied and before the key schedule is called,
\* whatever the state.
C9_ShortKeyFailsFast ==
    (method \in {"encrypt", "decrypt_"} /\ Len(master_key) < Length) =>
        /\ pc = "raise" /\ error = "ValueError"
        /\ pos = 0 /\ keys_used = <<>> /\ round_key = <<>>
        /\ state = arg

\* decrypt_ on a built cipher was given a 15-bit master key and raised at once
C9_Witness ==
    /\ StandardBuilt /\ method = "decrypt_"
    /\ Len(master_key) = Length - 1 /\ Len(arg) = Length
    /\ pc = "raise" /\ error = "ValueError" /\ pos = 0

\* the number of whitening markers among the first n layers
Whitenings(n) == Cardinality({i \in 1..n : layers[i].type = "key_whitening"})

\* C13: on a cipher built by the standard construction decrypt_ applies the layers
\* in the reverse of the stored order (the j-th layer it goes through is the j-th
\* from the end), its whitening steps draw the round keys num_rounds, num_rounds-1,
\* ..., 1, and a whitening layer is undone with the round key encrypt used at that
\* layer (its rank among the whitening layers).
C13_DecryptReverse ==
    (StandardBuilt /\ method = "decrypt_" /\ pc \in {"loop", "return"}) =>
        /\ \A j \in 1..Len(keys_used) : keys_used[j] = num_rounds - j + 1
        /\ \A j \in 1..pos :
              LET i == Len(layers) - j + 1
              IN  /\ layers[j].type = layers[i].type
                  /\ layers[j] = layers[i]
                  /\ layers[j].type = "key_whitening" =>
                        keys_used[Whitenings(j)] = Whitenings(i)

\* C14: every pass of the loop of encrypt applies the next layer in stored order; the
\* round counter is 1 plus the number of whitening steps passed; the j-th whitening
\* step draws round key j, XORs it into the state and adds 1 to the counter; a
\* substitution or permutation layer leaves the counter alone.
C14_EncryptOrder ==
    [][(method = "encrypt" /\ pc = "loop" /\ pos' = pos + 1) =>
          LET layer == layers[pos + 1]
              j == Whitenings(pos) + 1
              rk == generate_round_key(master_key, j, KeySize)
          IN  /\ round_num = j
              /\ IF layer.type = "key_whitening"
                 THEN /\ keys_used' = Append(keys_used, j)
                      /\ pc' = "loop" =>
                            /\ round_num' = j + 1
                            /\ round_key' = rk
                            /\ state' = [k \in 1..Len(state) |-> (state[k] + rk[k]) % 2]
                 ELSE /\ keys_used' = keys_used
                      /\ round_num' = round_num
                      /\ pc' = "loop" =>
                            state' = IF layer.type = "SubstitutionLayer"
                                     THEN SubstitutionLayer_encrypt(layer, state).val
                                     ELSE PermutationLayer_encrypt(layer, state).val]_vars

\* encrypt on a cipher of three rounds has returned after four whitening steps
C14_Witness ==
    /\ StandardBuilt /\ built.R = 3
    /\ method = "encrypt" /\ pc = "return" /\ pos = 9
    /\ keys_used = <<1, 2, 3, 4>> /\ round_num = 5
    /\ state # arg

\* C15: when add_layer or build_standard_spn raises a validation error, the layers
\* and num_rounds are what they were before the call.
C15_NoPartialMutation ==
    (built.op \in {"add_layer", "build_standard_spn"} /\ built.err = "ValueError") =>
        /\ Len(layers) = Len(built.before)
        /\ layers = built.before
        /\ num_rounds = built.rounds_before

---------------------------------------------------------------------------
(* differential_crypto.py: the difference-distribution table df of sbox *)

\* range(16): the inputs and the input differences of the table
DdtSize == 16

\* sbox._convert_to_int(sbox.encrypt(sbox._convert_to_binary(a)))
DDT_sbox_out(sb, a) ==
    SBOX_convert_to_int(sb, SBOX_encrypt(sb, SBOX_convert_to_binary(sb, a)).val).val

\* the loop `for diff in b_diff: diff_counts[diff] += 1` from item n on
RECURSIVE DDT_count_loop(_, _, _)
DDT_count_loop(b_diff, n, diff_counts) ==
    IF n > Len(b_diff) THEN diff_counts
    ELSE DDT_count_loop(b_diff, n + 1,
             [diff_counts EXCEPT ![b_diff[n] + 1] = diff_counts[b_diff[n] + 1] + 1])

DDT_diff_counts_seen(b_diff) ==
    [k \in 1..DdtSize |-> IF \E n \in 1..Len(b_diff) : b_diff[n] = k - 1 THEN 1 ELSE 0]

DDT_diff_counts(b_diff) ==
    DDT_count_loop(b_diff, 1, [k \in 1..DdtSize |-> 0])

\* the body of `for a_prime in range(16)`: the row of input difference d
DDT_row(sb, d) ==
    LET a_all == [k \in 1..DdtSize |-> k - 1]
        a_star == [k \in 1..DdtSize |-> XorInt(a_all[k], d)]
        b_all == [k \in 1..DdtSize |-> DDT_sbox_out(sb, a_all[k])]
        b_star == [k \in 1..DdtSize |-> DDT_sbox_out(sb, a_star[k])]
        b_diff == [k \in 1..DdtSize |-> XorInt(b_all[k], b_star[k])]
    IN  DDT_diff_counts(b_diff)

\* df.loc[a_prime] = diff_counts
BuildRow ==
    /\ sbox.type = "SBOX"
    /\ a_prime < DdtSize
    /\ df' = Append(df, DDT_row(sbox, a_prime))
    /\ a_prime' = a_prime + 1
    /\ UNCHANGED <<sbox, componentVars, cipherVars, runVars, trailVars>>

\* the bijective 4-bit tables the table is built for
DdtSboxes == {SboxObject(t, Bits) : t \in XorTables}

InitDDT ==
    /\ ComponentIdle /\ CipherIdle /\ RunIdle
    /\ sbox \in DdtSboxes
    /\ df = <<>>
    /\ a_prime = 0
    /\ TrailIdle

NextDDT == BuildRow

SpecDDT == InitDDT /\ [][NextDDT]_vars

RECURSIVE SumSeq(_)
SumSeq(q) == IF q = <<>> THEN 0 ELSE Head(q) + SumSeq(Tail(q))

\* C10: every row built of the difference-distribution table of a bijective k-bit
\* S-box sums to 2^k, and row 0 is 2^k at output difference 0 and 0 elsewhere.
C10_DdtRows ==
    /\ Len(df) = a_prime
    /\ \A d \in 1..Len(df) : Len(df[d]) = Pow2(sbox.bits) /\ SumSeq(df[d]) = Pow2(sbox.bits)
    /\ Len(df) >= 1 =>
          /\ df[1][1] = Pow2(sbox.bits)
          /\ \A o \in 2..Len(df[1]) : df[1][o] = 0

\* the whole table of the S-box of differential_crypto.py is built; its row for
\* input difference 1 is known
C10_Witness ==
    /\ sbox.table = DiffTable
    /\ a_prime = DdtSize /\ Len(df) = DdtSize
    /\ df[2] = <<0, 0, 0, 4, 0, 0, 2, 2, 0, 0, 2, 2, 0, 4, 0, 0>>

---------------------------------------------------------------------------
(* differential_crypto.py: trace_differential_trail and                    *)
(* find_best_differential_trail.  A float that is a product of factors     *)
(* count / 16.0 is the exact dyadic number [num, exp] = num / 2^exp with   *)
(* num odd (or exp = 0); the products of the model stay far below 2^53.    *)

\* the four S-box positions: [0, 0, 0, 0], range(4)
TrailSboxes == 4

\* the four bits of a nibble: `for bit_idx in range(4)`, `sbox_idx * 4`, `// 4`, `% 4`
TrailBits == 4

\* the default of the parameter num_rounds
TraceDefaultRounds == 4

\* nlargest(5)
TopCount == 5

\* trace_differential_trail is called with 1..MaxTrailRounds rounds
MaxTrailRounds == 4

\* 1.0 and 0
ProbOne == [num |-> 1, exp |-> 0]

ProbZero == [num |-> 0, exp |-> 0]

\* num / 2^exp in lowest terms
RECURSIVE ProbReduce(_, _)
ProbReduce(num, exp) ==
    IF exp > 0 /\ num % 2 = 0 THEN ProbReduce(num \div 2, exp - 1)
    ELSE [num |-> num, exp |-> exp]

\* p < q on floats; a shift of more than 30 bits decides like one of 30 bits
ProbLess(p, q) ==
    LET shift(k) == Pow2(IF k > 30 THEN 30 ELSE k)
    IN  IF p.exp <= q.exp
        THEN p.num <= (q.num - 1) \div shift(q.exp - p.exp)
        ELSE ~(q.num <= p.num \div shift(p.exp - q.exp))

Trace_times_eighths(p, count) == ProbReduce(p.num * count, p.exp + 3)

\* probability = count / 16.0; trail_probability *= probability
Trace_times(p, count) == ProbReduce(p.num * count, p.exp + 4)

Trail_idxlast(row) ==
    CHOOSE o \in 0..(Len(row) - 1) :
        /\ \A q \in 0..(Len(row) - 1) : row[q + 1] <= row[o + 1]
        /\ \A q \in (o + 1)..(Len(row) - 1) : row[q + 1] < row[o + 1]

\* df.loc[d].idxmax() for the row df.loc[d]: the first label of the maximum
Trail_idxmax(row) ==
    CHOOSE o \in 0..(Len(row) - 1) :
        /\ \A q \in 0..(Len(row) - 1) : row[q + 1] <= row[o + 1]
        /\ \A q \in 0..(o - 1) : row[q + 1] < row[o + 1]

\* the loop `for i in range(4)` of an S-box step from position i on; acc holds the
\* output differences, trail_probability and active_sboxes so far
RECURSIVE Trail_sbox_loop(_, _, _, _)
Trail_sbox_loop(table, diffs, i, acc) ==
    IF i >= TrailSboxes THEN acc
    ELSE IF diffs[i + 1] # 0
    THEN LET output_diff == Trail_idxmax(table[diffs[i + 1] + 1])
             count == table[diffs[i + 1] + 1][output_diff + 1]
         IN  Trail_sbox_loop(table, diffs, i + 1,
                 [out |-> [acc.out EXCEPT ![i + 1] = output_diff],
                  probability |-> Trace_times(acc.probability, count),
                  active |-> Append(acc.active, i)])
    ELSE Trail_sbox_loop(table, diffs, i + 1, acc)

\* after_sbox = [0, 0, 0, 0] (or final_diff) and the loop over the positions
Trail_sbox_step(table, diffs, p, active) ==
    Trail_sbox_loop(table, diffs, 0,
        [out |-> [k \in 1..TrailSboxes |-> 0], probability |-> p, active |-> active])

\* perm_map[bit_pos]
Trail_perm_lookup(map, key) ==
    map[CHOOSE n \in 1..Len(map) : map[n][1] = key][2]

\* v |= (1 << b)
Trail_or_bit(v, b) == IF (v \div Pow2(b)) % 2 = 1 THEN v ELSE v + Pow2(b)

\* the loops `for sbox_idx in range(4): for bit_idx in range(4)` from bit position n on
RECURSIVE Trail_perm_loop(_, _, _, _)
Trail_perm_loop(map, diffs, n, after_perm) ==
    IF n >= TrailSboxes * TrailBits THEN after_perm
    ELSE LET sbox_idx == n \div TrailBits
             bit_idx == n % TrailBits
             current_bit == (diffs[sbox_idx + 1] \div Pow2(bit_idx)) % 2
             bit_pos == sbox_idx * TrailBits + bit_idx
             perm_pos == Trail_perm_lookup(map, bit_pos)
             new_sbox == perm_pos \div TrailBits
             new_bit == perm_pos % TrailBits
         IN  Trail_perm_loop(map, diffs, n + 1,
                 IF current_bit = 1
                 THEN [after_perm EXCEPT ![new_sbox + 1] = Trail_or_bit(@, new_bit)]
                 ELSE after_perm)

Trail_permute_swapped(map, diffs) ==
    LET moved == Trail_perm_loop(map, diffs, 0, [k \in 1..TrailSboxes |-> 0])
        bit(v, k) == (v \div Pow2(k)) % 2
    IN  [k \in 1..TrailSboxes |->
            bit(moved[1], k - 1) + (2 * bit(moved[2], k - 1))
                + (4 * bit(moved[3], k - 1)) + (8 * bit(moved[4], k - 1))]

\* after_perm = [0, 0, 0, 0] and the permutation of the bits of after_sbox
Trail_permute(map, diffs) ==
    Trail_perm_loop(map, diffs, 0, [k \in 1..TrailSboxes |-> 0])

Trace_loop_rounds_all(R) == R

\* the number of passes of `for round_num in range(num_rounds-1)`
Trace_loop_rounds(R) == R - 1

\* len(set(active_sboxes))
Trace_active_count(active) == Cardinality({active[k] : k \in 1..Len(active)})

\* n passes of the loop of trace_differential_trail on the locals st
RECURSIVE Trace_loop(_, _, _, _)
Trace_loop(table, map, n, st) ==
    IF n <= 0 THEN st
    ELSE LET s == Trail_sbox_step(table, st.state_diff, st.trail_probability,
                                  st.active_sboxes)
             after_perm == Trail_permute(map, s.out)
         IN  Trace_loop(table, map, n - 1,
                 [state_diff |-> after_perm, trail_probability |-> s.probability,
                  active_sboxes |-> s.active, trails |-> Append(st.trails, after_perm)])

\* trace_differential_trail from `trails = [state_diff]` on: what it returns when
\* state_diff is the list of nibbles `start`
Trace_from(table, map, start, R) ==
    LET looped == Trace_loop(table, map, Trace_loop_rounds(R),
                      [state_diff |-> start, trail_probability |-> ProbOne,
                       active_sboxes |-> <<>>, trails |-> <<start>>])
        fin == Trail_sbox_step(table, looped.state_diff, looped.trail_probability,
                               looped.active_sboxes)
    IN  [trail |-> Append(looped.trails, fin.out),
         probability |-> fin.probability,
         active_sboxes |-> Trace_active_count(fin.active)]

\* trace_differential_trail(x, R) for a Python value x = [type, val].  An int is
\* put at state_diff[1].  A list is put there too, whole: df.loc[list] is a frame,
\* its idxmax() a Series, trail_probability a frame, and int(after_sbox[1]) in the
\* first permutation step raises TypeError; with no permutation step (R < 2) the
\* call returns the frame as probability.
trace_differential_trail(table, map, x, R) ==
    IF x.type = "int"
    THEN Ok(Trace_from(table, map, [k \in 1..TrailSboxes |-> IF k = 2 THEN x.val ELSE 0], R))
    ELSE IF Trace_loop_rounds(R) >= 1 THEN Raise("TypeError")
    ELSE Ok([trail |-> << <<0, x, 0, 0>>, <<0, [type |-> "Series"], 0, 0>> >>,
             probability |-> [type |-> "DataFrame"],
             active_sboxes |-> 1])

\* df.iloc[1:].max(axis=1): the maximum of each row but the first, by input difference
Trail_row_maxima(table) ==
    [d \in 1..(Len(table) - 1) |-> table[d + 1][Trail_idxmax(table[d + 1]) + 1]]

\* maxima.nlargest(n).index.tolist(): the n input differences with the largest row
\* maximum, largest first, the lower one first among equals
RECURSIVE Trail_nlargest(_, _, _)
Trail_nlargest(maxima, n, taken) ==
    LET left == (DOMAIN maxima) \ taken
    IN  IF n = 0 \/ left = {} THEN <<>>
        ELSE LET d == CHOOSE c \in left :
                          \A e \in left :
                              maxima[e] < maxima[c] \/ (maxima[e] = maxima[c] /\ c <= e)
             IN  <<d>> \o Trail_nlargest(maxima, n - 1, taken \cup {d})

\* start_diff = [0, 0, 0, 0]; start_diff[sbox_pos] = int(input_diff)
Trail_start_diff(sbox_pos, d) == [k \in 1..TrailSboxes |-> IF k = sbox_pos + 1 THEN d ELSE 0]

\* the loops `for sbox_pos in range(4): for input_diff in top_diffs` from candidate
\* c on (sbox_pos = c // 5); an exception of trace_differential_trail ends the call
RECURSIVE FindBest_loop(_, _, _, _, _, _)
FindBest_loop(table, map, top_diffs, c, best_probability, best_trail) ==
    IF c >= TrailSboxes * Len(top_diffs) THEN Ok(best_trail)
    ELSE LET start_diff == Trail_start_diff(c \div Len(top_diffs),
                                            top_diffs[(c % Len(top_diffs)) + 1])
             r == trace_differential_trail(table, map,
                      [type |-> "list", val |-> start_diff], TraceDefaultRounds)
         IN  IF r.err # "" THEN Raise(r.err)
             ELSE IF ProbLess(best_probability, r.val.probability)
             THEN FindBest_loop(table, map, top_diffs, c + 1, r.val.probability, r.val)
             ELSE FindBest_loop(table, map, top_diffs, c + 1, best_probability, best_trail)

find_best_differential_trail(table, map) ==
    FindBest_loop(table, map, Trail_nlargest(Trail_row_maxima(table), TopCount, {}), 0,
                  ProbZero, None)

\* trace_differential_trail(d, R) up to the loop
TraceStart(d, R) ==
    /\ a_prime = DdtSize
    /\ trace_pc \in {"idle", "return"}
    /\ input_diff' = d
    /\ trail_rounds' = R
    /\ state_diff' = [k \in 1..TrailSboxes |-> IF k = 2 THEN d ELSE 0]
    /\ trail_probability' = ProbOne
    /\ active_sboxes' = <<>>
    /\ trails' = <<state_diff'>>
    /\ after_sbox' = <<>>
    /\ trail_round' = 0
    /\ steps' = <<>>
    /\ trace_result' = None
    /\ trace_pc' = IF 0 < Trace_loop_rounds(R) THEN "sbox" ELSE "final"
    /\ UNCHANGED <<sbox, df, a_prime, pmap, best, componentVars, cipherVars, runVars>>

\* the S-box step of a pass of the loop
SboxStep ==
    /\ trace_pc = "sbox"
    /\ LET s == Trail_sbox_step(df, state_diff, trail_probability, active_sboxes)
       IN  /\ after_sbox' = s.out
           /\ trail_probability' = s.probability
           /\ active_sboxes' = s.active
    /\ steps' = Append(steps, "sbox")
    /\ trace_pc' = "perm"
    /\ UNCHANGED <<sbox, df, a_prime, pmap, input_diff, trail_rounds, state_diff, trails,
                   trail_round, trace_result, best, componentVars, cipherVars, runVars>>

\* the permutation step of a pass of the loop, up to trails.append(state_diff)
PermStep ==
    /\ trace_pc = "perm"
    /\ state_diff' = Trail_permute(pmap, after_sbox)
    /\ trails' = Append(trails, state_diff')
    /\ trail_round' = trail_round + 1
    /\ steps' = Append(steps, "perm")
    /\ trace_pc' = IF trail_round' < Trace_loop_rounds(trail_rounds) THEN "sbox" ELSE "final"
    /\ UNCHANGED <<sbox, df, a_prime, pmap, input_diff, trail_rounds, after_sbox,
                   trail_probability, active_sboxes, trace_result, best, componentVars,
                   cipherVars, runVars>>

\* the S-box step after the loop, trails.append(final_diff) and the return
FinalStep ==
    /\ trace_pc = "final"
    /\ LET s == Trail_sbox_step(df, state_diff, trail_probability, active_sboxes)
       IN  /\ trail_probability' = s.probability
           /\ active_sboxes' = s.active
           /\ trails' = Append(trails, s.out)
           /\ trace_result' = [trail |-> trails', probability |-> s.probability,
                               active_sboxes |-> Trace_active_count(s.active)]
    /\ steps' = Append(steps, "sbox")
    /\ trace_pc' = "return"
    /\ UNCHANGED <<sbox, df, a_prime, pmap, input_diff, trail_rounds, state_diff, after_sbox,
                   trail_round, best, componentVars, cipherVars, runVars>>

\* best_trail = find_best_differential_trail(), as main() calls it, while no other
\* call is running
FindBest ==
    /\ a_prime = DdtSize
    /\ trace_pc \in {"idle", "return"}
    /\ best = None
    /\ best' = find_best_differential_trail(df, pmap)
    /\ UNCHANGED <<sbox, df, a_prime, pmap, trace_pc, input_diff, trail_rounds, state_diff,
                   after_sbox, trail_probability, active_sboxes, trails, trail_round, steps,
                   trace_result, componentVars, cipherVars, runVars>>

\* the bit maps of 16 positions the trail search is run with
TrailPermMaps ==
    {DiffPermMap, IdentityMap(Length), [k \in 1..Length |-> <<k - 1, (k + 4) % Length>>]}

\* the table of sbox is built; no trail has been traced
InitTrail ==
    /\ ComponentIdle /\ CipherIdle /\ RunIdle
    /\ sbox \in DdtSboxes
    /\ df = [d \in 1..DdtSize |-> DDT_row(sbox, d - 1)]
    /\ a_prime = DdtSize
    /\ pmap \in TrailPermMaps
    /\ trace_pc = "idle"
    /\ input_diff = 0
    /\ trail_rounds = 0
    /\ state_diff = <<>>
    /\ after_sbox = <<>>
    /\ trail_probability = ProbOne
    /\ active_sboxes = <<>>
    /\ trails = <<>>
    /\ trail_round = 0
    /\ steps = <<>>
    /\ trace_result = None
    /\ best = None

\* the input differences of the next call: any nibble for the first call, the same
\* nibble (with any round count) for a call after a return
TraceArgs == IF trace_pc = "idle" THEN 0..(DdtSize - 1) ELSE {input_diff}

NextTrail ==
    \/ \E d \in TraceArgs, R \in 1..MaxTrailRounds : TraceStart(d, R)
    \/ SboxStep
    \/ PermStep
    \/ FinalStep
    \/ FindBest

SpecTrail == InitTrail /\ [][NextTrail]_vars


\* C11: in every call trace_differential_trail(d, R), 1 <= R, the trail probability
\* is in (0, 1] at the start and after every step, and no step of the call raises it.
C11_ProbabilityRange ==
    [][trace_pc' # "idle" =>
          /\ ProbLess(ProbZero, trail_probability')
          /\ ~ProbLess(ProbOne, trail_probability')
          /\ steps' # <<>> => ~ProbLess(trail_probability, trail_probability')]_vars

\* a trail of four rounds through the S-box of differential_crypto.py has returned:
\* its probability 81 / 2^16 is below that of its first three rounds
C11_Witness ==
    /\ trace_pc = "return" /\ trail_rounds = 4 /\ input_diff = 11
    /\ sbox.table = DiffTable /\ pmap = DiffPermMap
    /\ trail_probability = [num |-> 81, exp |-> 16]
    /\ Len(active_sboxes) = 6


\* the trails C12 names, in iteration order: candidate c = 5 * pos + rank traces the
\* vector with the rank-th of the top differences at position pos, 0 elsewhere
C12_Trails ==
    LET top_diffs == Trail_nlargest(Trail_row_maxima(df), TopCount, {})
    IN  [c \in 0..(TrailSboxes * TopCount - 1) |->
            Trace_from(df, pmap,
                       Trail_start_diff(c \div TopCount, top_diffs[(c % TopCount) + 1]),
                       TraceDefaultRounds)]

\* C12: find_best_differential_trail returns, of the 20 trails traced from a vector
\* with one of the 5 top input differences at one of the 4 positions, the first one
\* in iteration order whose probability none of the others exceeds.
C12_FindBest ==
    (best # None) =>
        /\ best.err = ""
        /\ \E c \in DOMAIN C12_Trails :
              /\ best.val = C12_Trails[c]
              /\ \A e \in DOMAIN C12_Trails :
                    /\ ~ProbLess(C12_Trails[c].probability, C12_Trails[e].probability)
                    /\ e < c => ProbLess(C12_Trails[e].probability, C12_Trails[c].probability)


RECURSIVE ProductSeq(_)
ProductSeq(q) == IF q = <<>> THEN 1 ELSE Head(q) * ProductSeq(Tail(q))

\* C16: an S-box step (in the loop or the final one) gives every position with a
\* nonzero difference d the lowest output difference o with the greatest df[d][o],
\* multiplies the trail probability by df[d][o] / 16 for each of them and appends
\* these positions, in order, to active_sboxes; a position with difference 0 gets
\* output difference 0, no factor and no entry in active_sboxes.
C16_SboxStep ==
    [][steps' = Append(steps, "sbox") =>
          LET out == IF trace_pc = "final" THEN trails'[Len(trails')] ELSE after_sbox'
              active == SelectSeq([k \in 1..TrailSboxes |-> k - 1],
                                  LAMBDA i : state_diff[i + 1] # 0)
              counts == [n \in 1..Len(active) |->
                            df[state_diff[active[n] + 1] + 1][out[active[n] + 1] + 1]]
          IN  /\ \A i \in 1..TrailSboxes :
                    LET row == df[state_diff[i] + 1]
                    IN  IF state_diff[i] = 0 THEN out[i] = 0
                        ELSE /\ \A o \in 1..Len(row) : row[o] <= row[out[i] + 1]
                             /\ \A o \in 1..out[i] : row[o] < row[out[i] + 1]
              /\ active_sboxes' = active_sboxes \o active
              /\ trail_probability' =
                     ProbReduce(trail_probability.num * ProductSeq(counts),
                                trail_probability.exp + Bits * Len(active))]_vars

\* the first S-box step on input difference 1 is done: row 1 of the table has its
\* maximum 4 at the output differences 3 and 13, and 3 is taken; three positions
\* are 0 and stay 0
C16_Witness ==
    /\ sbox.table = DiffTable
    /\ trace_pc = "perm" /\ steps = <<"sbox">>
    /\ state_diff = <<0, 1, 0, 0>> /\ after_sbox = <<0, 3, 0, 0>>
    /\ df[2][4] = 4 /\ df[2][14] = 4
    /\ trail_probability = [num |-> 1, exp |-> 2]
    /\ active_sboxes = <<1>>

\* the 16 bits of a vector of 4 nibbles: bit j of nibble i at position 4i+j
C17_Unpack(v) ==
    [n \in 1..(TrailSboxes * TrailBits) |->
        (v[((n - 1) \div TrailBits) + 1] \div Pow2((n - 1) % TrailBits)) % 2]

\* the vector of 4 nibbles of 16 bits
C17_Repack(b) ==
    [i \in 1..TrailSboxes |->
        SumSeq([j \in 1..TrailBits |-> b[TrailBits * (i - 1) + j] * Pow2(j - 1)])]

\* the permutation step on v is PermutationLayer.encrypt on the bits of v: every bit
\* at position p moves to perm_map[p], and as many bits are set after as before
C17_Agrees(v, w) ==
    LET layer == PermutationLayer_init(pmap)
    IN  /\ layer.err = ""
        /\ w = C17_Repack(PermutationLayer_encrypt(layer.val, C17_Unpack(v)).val)
        /\ \A p \in 0..(TrailSboxes * TrailBits - 1) :
              C17_Unpack(w)[Trail_perm_lookup(pmap, p) + 1] = C17_Unpack(v)[p + 1]
        /\ SumSeq(C17_Unpack(w)) = SumSeq(C17_Unpack(v))

\* the vectors of 4 nibbles with at most two nonzero nibbles
C17_Vectors ==
    {[k \in 1..TrailSboxes |-> IF k = i THEN a ELSE IF k = j THEN b ELSE 0] :
        i \in 1..TrailSboxes, j \in 1..TrailSboxes,
        a \in 0..(Pow2(TrailBits) - 1), b \in 0..(Pow2(TrailBits) - 1)}

\* C17: the vector a permutation step of the trail search computed from after_sbox is
\* the repacked PermutationLayer.encrypt, for perm_map, of the unpacked after_sbox,
\* with the same number of set bits; and so is what the step computes for every
\* vector of C17_Vectors (evaluated before the first call).
C17_PermutationStep ==
    /\ (steps # <<>> /\ steps[Len(steps)] = "perm") => C17_Agrees(after_sbox, state_diff)
    /\ (trace_pc = "idle" /\ best = None) =>
          \A v \in C17_Vectors : C17_Agrees(v, Trail_permute(pmap, v))

\* a permutation step has moved the two set bits of nibble 1 (difference 3) to bit 1
\* of the nibbles 0 and 1
C17_Witness ==
    /\ pmap = DiffPermMap
    /\ steps = <<"sbox", "perm">>
    /\ after_sbox = <<0, 3, 0, 0>>
    /\ state_diff = <<2, 2, 0, 0>>

\* C18: a call with R rounds does S-box and permutation steps in turn, starting and
\* ending with an S-box step: R S-box steps and R-1 permutation steps when it
\* returns; trails holds the initial vector and one vector per permutation step, and
\* at the return the final vector too (R+1 vectors), which is nonzero exactly where
\* the vector before it is.
C18_TrailShape ==
    trace_pc # "idle" =>
        LET R == trail_rounds
            perms == Cardinality({k \in 1..Len(steps) : steps[k] = "perm"})
            sboxes == Cardinality({k \in 1..Len(steps) : steps[k] = "sbox"})
        IN  /\ \A k \in 1..Len(steps) : steps[k] = IF k % 2 = 1 THEN "sbox" ELSE "perm"
            /\ sboxes <= R /\ perms <= R - 1
            /\ trails[1] = [k \in 1..TrailSboxes |-> IF k = 2 THEN input_diff ELSE 0]
            /\ trace_pc # "return" =>
                  /\ Len(trails) = perms + 1
                  /\ trails[Len(trails)] = state_diff
            /\ trace_pc = "return" =>
                  /\ sboxes = R /\ perms = R - 1
                  /\ steps[Len(steps)] = "sbox"
                  /\ trace_result.trail = trails
                  /\ Len(trails) = R + 1
                  /\ trails[R] = state_diff
                  /\ \A i \in 1..TrailSboxes : (trails[R + 1][i] # 0) <=> (trails[R][i] # 0)

\* a trail of three rounds has returned: 3 S-box steps, 2 permutation steps, 4 vectors
C18_Witness ==
    /\ trace_pc = "return" /\ trail_rounds = 3
    /\ steps = <<"sbox", "perm", "sbox", "perm", "sbox">>
    /\ Len(trace_result.trail) = 4
    /\ Cardinality({i \in 1..TrailSboxes : trails[4][i] # 0}) = 2
    /\ Cardinality({i \in 1..TrailSboxes : trails[3][i] # 0}) = 2

============================================================================
